---- MODULE Spec2Model ----
(***************************************************************************)
(* Flappy bird (src/src/main.rs): the per-frame simulation of the bird and *)
(* of the scrolling obstacle field, as scheduled by the Bevy app of main.  *)
(*                                                                         *)
(* Arithmetic.  The program computes in f32.  The model works on a grid on *)
(* which every f32 operation of the program is exact: a frame's delta time *)
(* is a whole number of ticks of 1/TICKS_PER_SECOND s, velocities are in   *)
(* world units per second and positions in 1/UNITS_PER_PIXEL of a world    *)
(* unit.  On this grid velocities are multiples of 250, bird positions     *)
(* multiples of 31.25 and obstacle positions multiples of 18.75, all small *)
(* dyadic rationals, so no rounding occurs and every \div below is exact.  *)
(***************************************************************************)
EXTENDS Integers, Sequences, FiniteSets

\* ---- grid ----------------------------------------------------------------
TICKS_PER_SECOND == 8
UNITS_PER_PIXEL == 4

\* ---- program constants (main.rs:24-35, window resolution main.rs:12) ------
PIXEL_RATIO == 4
GRAVITY == 2000
FLAP_FORCE == 500
\* VELOCITY_TO_ROTATION_RATIO is 7.5: rotations are kept in 1/15 of a degree,
\* where velocity / 7.5 degrees is 2 * velocity.
ROTATION_UNITS_PER_DEGREE == 15
MAX_ROTATION_DEGREES == 90
OBSTACLE_AMOUNT == 5
OBSTACLE_WIDTH == 32
OBSTACLE_HEIGHT == 144
OBSTACLE_VERTICAL_OFFSET == 30
OBSTACLE_GAP_SIZE == 15
OBSTACLE_SPACING == 60
OBSTACLE_SCROLL_SPEED == 150
WINDOW_WIDTH == 512
WINDOW_HEIGHT == 512

\* ---- bounds of the model -------------------------------------------------
\* Delta times of a frame, in ticks: a still frame, short frames, the first
\* delta that recycles the pair spawned at x = 0 (LongDelta) and the delta
\* before it, and a delta after which a recycled pair is still left of the
\* screen (HugeDelta).
LongDelta == 18
HugeDelta == 82
DeltaTimes == {0, 1, 2, LongDelta - 1, LongDelta, HugeDelta}
\* No further frame is started once the bird is above MaxBirdY or an obstacle
\* is more than MaxScrolled left of the origin (world units, less than the
\* 320 at which obstacles recycle); only the contract specification lets the
\* bird climb or the scroll accumulate.
MaxBirdY == 900
MaxScrolled == 250

\* ---- f32 / Vec3 helpers ----------------------------------------------------
abs(a) == IF a < 0 THEN -a ELSE a

clamp(a, lo, hi) == IF a < lo THEN lo ELSE IF a > hi THEN hi ELSE a

Vec3(x, y, z) == [x |-> x, y |-> y, z |-> z]

ZERO == Vec3(0, 0, 0)

\* Vec3 += f32 (glam): the scalar is added to every component.
add_scalar(v, s) == Vec3(v.x + s, v.y + s, v.z + s)

\* The elements of a finite set of integers, ascending.
RECURSIVE ascending(_)
ascending(S) ==
    IF S = {} THEN <<>>
    ELSE LET m == CHOOSE a \in S : \A b \in S : a <= b
         IN  <<m>> \o ascending(S \ {m})

\* ---- state ---------------------------------------------------------------
VARIABLES
    window_dimentions,  \* GameManager.window_dimentions, [x, y]
    bird,               \* the Bird component: [velocity]
    bird_transform,     \* the bird's Transform: [translation, rotation]
    obstacles,          \* entity id -> [translation, pipe_direction]
    commands,           \* the deferred command queue of the running schedule
    delta_secs,         \* Time::delta_secs() of the current frame, in ticks
    just_pressed,       \* keys.just_pressed(KeyCode::Space) of the frame
    pending,            \* systems of Update that have not run yet this frame
    schedule            \* "Startup", "Update", or "Idle" between two frames

vars == <<window_dimentions, bird, bird_transform, obstacles, commands,
          delta_secs, just_pressed, pending, schedule>>

UpdateSystems == {"update_bird", "update_obsacles"}

\* ---- generate_offset, get_centered_pipe_position ---------------------------
\* Mutant: the range of the draw includes its upper end.
generate_offset_closed ==
    { -OBSTACLE_VERTICAL_OFFSET * PIXEL_RATIO * UNITS_PER_PIXEL,
      OBSTACLE_VERTICAL_OFFSET * PIXEL_RATIO * UNITS_PER_PIXEL }

\* gen_range(-30..30) * PIXEL_RATIO: the two ends of the half-open range on
\* the grid.
generate_offset ==
    { -OBSTACLE_VERTICAL_OFFSET * PIXEL_RATIO * UNITS_PER_PIXEL,
      OBSTACLE_VERTICAL_OFFSET * PIXEL_RATIO * UNITS_PER_PIXEL - 1 }

get_centered_pipe_position ==
    ((OBSTACLE_HEIGHT \div 2 + OBSTACLE_GAP_SIZE) * PIXEL_RATIO) * UNITS_PER_PIXEL

\* The offsets one call of spawn_obstacles draws, one per loop iteration: the
\* draws that change value at most once along the loop.
OffsetDraws ==
    { [i \in 0 .. OBSTACLE_AMOUNT - 1 |-> IF i < k THEN a ELSE b] :
        k \in 0 .. OBSTACLE_AMOUNT - 1, a \in generate_offset, b \in generate_offset }

\* ---- commands ------------------------------------------------------------
\* Commands::spawn reserves the entity id at once; the allocator hands out the
\* lowest ids that are not in use.
RECURSIVE reserve_entities(_, _)
reserve_entities(used, n) ==
    IF n = 0 THEN <<>>
    ELSE LET e == CHOOSE a \in 1 .. Cardinality(used) + 1 : a \notin used
                    /\ \A b \in 1 .. Cardinality(used) + 1 : b \notin used => a <= b
         IN  <<e>> \o reserve_entities(used \cup {e}, n - 1)

spawn_obstacle(translation, pipe_direction, cmds, entity) ==
    Append(cmds, [op |-> "spawn", entity |-> entity,
                  translation |-> translation,
                  pipe_direction |-> pipe_direction])

\* Mutant: the pairs are laid out OBSTACLE_SPACING apart.
x_pos_spaced(i, window_width) ==
    OBSTACLE_SPACING * PIXEL_RATIO * UNITS_PER_PIXEL * i

x_pos(i, window_width) == (window_width \div 2) * PIXEL_RATIO * i

RECURSIVE spawn_loop(_, _, _, _, _)
spawn_loop(i, cmds, ids, offsets, window_width) ==
    IF i >= OBSTACLE_AMOUNT THEN cmds
    ELSE LET y_offset == offsets[i]
             x == x_pos(i, window_width)
             up == spawn_obstacle(
                       Vec3(x, get_centered_pipe_position + y_offset, 0),
                       1, cmds, ids[2 * i + 1])
             down == spawn_obstacle(
                       Vec3(x, -get_centered_pipe_position + y_offset, 0),
                       -1, up, ids[2 * i + 2])
         IN  spawn_loop(i + 1, down, ids, offsets, window_width)

spawn_obstacles(cmds, ids, offsets, window_width) ==
    spawn_loop(0, cmds, ids, offsets, window_width)

\* Mutant: the first obstacle of the query is not despawned.
despawn_all_but_first(cmds, entities) ==
    cmds \o [k \in 1 .. Len(entities) - 1 |->
               [op |-> "despawn", entity |-> entities[k + 1]]]

despawn_all(cmds, entities) ==
    cmds \o [k \in 1 .. Len(entities) |-> [op |-> "despawn", entity |-> entities[k]]]

\* Applying the queue to the world, command by command.
apply_command(world, c) ==
    IF c.op = "despawn"
    THEN [e \in DOMAIN world \ {c.entity} |-> world[e]]
    ELSE [e \in DOMAIN world \cup {c.entity} |->
            IF e = c.entity
            THEN [translation |-> c.translation, pipe_direction |-> c.pipe_direction]
            ELSE world[e]]

RECURSIVE apply_commands(_, _)
apply_commands(world, cmds) ==
    IF cmds = <<>> THEN world
    ELSE apply_commands(apply_command(world, Head(cmds)), Tail(cmds))

\* ---- update_bird -----------------------------------------------------------
\* Mutant: the impulse is added to the velocity.
flap_added(velocity, pressed) ==
    IF pressed THEN velocity + FLAP_FORCE ELSE velocity

flap(velocity, pressed) == IF pressed THEN FLAP_FORCE ELSE velocity

\* Mutant: gravity is added to the velocity.
apply_gravity_upwards(velocity, dt) == velocity + (dt * GRAVITY) \div TICKS_PER_SECOND

\* Mutant: the fall is capped at a terminal velocity.
apply_gravity_capped(velocity, dt) ==
    LET v == velocity - (dt * GRAVITY) \div TICKS_PER_SECOND
    IN  IF v < -FLAP_FORCE THEN -FLAP_FORCE ELSE v

apply_gravity(velocity, dt) == velocity - (dt * GRAVITY) \div TICKS_PER_SECOND

integrate(translation, velocity, dt) ==
    add_scalar(translation, (UNITS_PER_PIXEL * velocity * dt) \div TICKS_PER_SECOND)

rotation_of(velocity) ==
    clamp(2 * velocity,
          -MAX_ROTATION_DEGREES * ROTATION_UNITS_PER_DEGREE,
          MAX_ROTATION_DEGREES * ROTATION_UNITS_PER_DEGREE)

\* Mutant: the bound is the bottom edge of the screen.
below_screen_bottom(translation, window) == translation.y < -(window.y \div 2)

below_screen_bound(translation, window) == translation.y < window.y \div 2

pipe_hit(pipe_translation, translation) ==
    \/ abs(pipe_translation.y - translation.y)
         < (OBSTACLE_HEIGHT * PIXEL_RATIO * UNITS_PER_PIXEL) \div 2
    \/ abs(pipe_translation.x - translation.x)
         < (OBSTACLE_WIDTH * PIXEL_RATIO * UNITS_PER_PIXEL) \div 2

is_dead(translation, window, world) ==
    IF below_screen_bound(translation, window) THEN TRUE
    ELSE \E e \in DOMAIN world : pipe_hit(world[e].translation, translation)

\* Mutant: only the height of a dead bird is reset.
reset_translation_y(translation) == Vec3(translation.x, 0, translation.z)

\* transform.translation = Vec3::ZERO of a dead bird.
reset_translation(translation) == ZERO

\* Velocity and translation of the bird after lines 91-96.
integrated_velocity == apply_gravity(flap(bird.velocity, just_pressed), delta_secs)

integrated_translation ==
    integrate(bird_transform.translation, integrated_velocity, delta_secs)

\* The body of update_bird on the obstacles it sees, with the offsets its
\* spawn_obstacles draws if the bird is dead: the bird, its transform and the
\* command queue it leaves.
bird_step(world, offsets) ==
    LET velocity == integrated_velocity
        translation == integrated_translation
        rotation == rotation_of(velocity)
    IN  IF is_dead(translation, window_dimentions, world)
        THEN LET live == DOMAIN world
                 despawned == despawn_all(commands, ascending(live))
                 ids == reserve_entities(live, 2 * OBSTACLE_AMOUNT)
             IN  [bird |-> [velocity |-> 0],
                  transform |-> [translation |-> reset_translation(translation),
                                 rotation |-> rotation],
                  commands |-> spawn_obstacles(despawned, ids, offsets,
                                               window_dimentions.x)]
        ELSE [bird |-> [velocity |-> velocity],
              transform |-> [translation |-> translation, rotation |-> rotation],
              commands |-> commands]

\* Mutant: the commands of a dead bird are applied as they are issued.
update_bird_immediate ==
    /\ schedule = "Update"
    /\ "update_bird" \in pending
    /\ pending' = pending \ {"update_bird"}
    /\ \E offsets \in OffsetDraws :
         LET after == bird_step(obstacles, offsets)
         IN  /\ bird' = after.bird
             /\ bird_transform' = after.transform
             /\ obstacles' = apply_commands(obstacles, after.commands)
             /\ commands' = <<>>
    /\ UNCHANGED <<window_dimentions, delta_secs, just_pressed, schedule>>

update_bird ==
    /\ schedule = "Update"
    /\ "update_bird" \in pending
    /\ pending' = pending \ {"update_bird"}
    /\ \E offsets \in OffsetDraws :
         LET after == bird_step(obstacles, offsets)
         IN  /\ bird' = after.bird
             /\ bird_transform' = after.transform
             /\ commands' = after.commands
    /\ UNCHANGED <<window_dimentions, obstacles, delta_secs, just_pressed, schedule>>

\* ---- update_obsacles -------------------------------------------------------
scroll(x, dt) == x - (UNITS_PER_PIXEL * dt * OBSTACLE_SCROLL_SPEED) \div TICKS_PER_SECOND

\* Mutant: an obstacle recycles when its centre leaves the screen.
left_of_screen_centre(x, window) == x < -(window.x \div 2)

left_of_screen(x, window) ==
    x + (OBSTACLE_WIDTH * PIXEL_RATIO * UNITS_PER_PIXEL) \div 2 < -(window.x \div 2)

\* Mutant: the recycled pipe mirrors the offset with its direction.
advance_obstacle_mirrored(o, dt, y_offset, window) ==
    LET x == scroll(o.translation.x, dt)
    IN  IF left_of_screen(x, window)
        THEN [o EXCEPT
                !.translation.x = x + OBSTACLE_AMOUNT * OBSTACLE_SPACING
                                        * PIXEL_RATIO * UNITS_PER_PIXEL,
                !.translation.y = (get_centered_pipe_position + y_offset)
                                    * o.pipe_direction]
        ELSE [o EXCEPT !.translation.x = x]

\* Mutant: an obstacle is pushed right until it is no longer left of the screen.
advance_obstacle_repeated(o, dt, y_offset, window) ==
    LET x == scroll(o.translation.x, dt)
        step == OBSTACLE_AMOUNT * OBSTACLE_SPACING * PIXEL_RATIO * UNITS_PER_PIXEL
    IN  IF left_of_screen(x, window)
        THEN [o EXCEPT
                !.translation.x = IF left_of_screen(x + step, window)
                                  THEN x + 2 * step ELSE x + step,
                !.translation.y = get_centered_pipe_position * o.pipe_direction
                                    + y_offset]
        ELSE [o EXCEPT !.translation.x = x]

\* Mutant: a recycled obstacle keeps the height it had.
advance_obstacle_kept(o, dt, y_offset, window) ==
    LET x == scroll(o.translation.x, dt)
    IN  IF left_of_screen(x, window)
        THEN [o EXCEPT
                !.translation.x = x + OBSTACLE_AMOUNT * OBSTACLE_SPACING
                                        * PIXEL_RATIO * UNITS_PER_PIXEL]
        ELSE [o EXCEPT !.translation.x = x]

\* Mutant: every obstacle gets the offset of the call, recycled or not.
advance_obstacle_reset_all(o, dt, y_offset, window) ==
    LET x == scroll(o.translation.x, dt)
    IN  [o EXCEPT
           !.translation.x = IF left_of_screen(x, window)
                             THEN x + OBSTACLE_AMOUNT * OBSTACLE_SPACING
                                        * PIXEL_RATIO * UNITS_PER_PIXEL
                             ELSE x,
           !.translation.y = get_centered_pipe_position * o.pipe_direction
                               + y_offset]

advance_obstacle(o, dt, y_offset, window) ==
    LET x == scroll(o.translation.x, dt)
    IN  IF left_of_screen(x, window)
        THEN [o EXCEPT
                !.translation.x = x + OBSTACLE_AMOUNT * OBSTACLE_SPACING
                                        * PIXEL_RATIO * UNITS_PER_PIXEL,
                !.translation.y = get_centered_pipe_position * o.pipe_direction
                                    + y_offset]
        ELSE [o EXCEPT !.translation.x = x]

\* The loop of update_obsacles over the obstacles, with the offset the call
\* drew before the loop.
advance_all(world, y_offset) ==
    [e \in DOMAIN world |->
       advance_obstacle(world[e], delta_secs, y_offset, window_dimentions)]

update_obsacles ==
    /\ schedule = "Update"
    /\ "update_obsacles" \in pending
    /\ pending' = pending \ {"update_obsacles"}
    /\ \E y_offset \in generate_offset :
         obstacles' = advance_all(obstacles, y_offset)
    /\ UNCHANGED <<window_dimentions, bird, bird_transform, commands,
                   delta_secs, just_pressed, schedule>>

\* ---- the schedules ---------------------------------------------------------
\* The deferred commands of a schedule are applied when all its systems have
\* run: update_bird and update_obsacles are not ordered with each other, so no
\* synchronisation point lies between them.
apply_deferred ==
    /\ schedule \in {"Startup", "Update"}
    /\ pending = {}
    /\ obstacles' = apply_commands(obstacles, commands)
    /\ commands' = <<>>
    /\ schedule' = "Idle"
    /\ UNCHANGED <<window_dimentions, bird, bird_transform, delta_secs,
                   just_pressed, pending>>

\* A new frame: the host sets the frame's delta time and input, then runs the
\* two systems of Update in either order.
begin_frame ==
    /\ schedule = "Idle"
    /\ bird_transform.translation.y <= MaxBirdY * UNITS_PER_PIXEL
    /\ \A e \in DOMAIN obstacles :
         obstacles[e].translation.x >= -MaxScrolled * UNITS_PER_PIXEL
    /\ \E dt \in DeltaTimes, pressed \in BOOLEAN :
         /\ delta_secs' = dt
         /\ just_pressed' = pressed
    /\ pending' = UpdateSystems
    /\ schedule' = "Update"
    /\ UNCHANGED <<window_dimentions, bird, bird_transform, obstacles, commands>>

\* setup_level has run: the bird exists, the obstacles are queued.
Init ==
    /\ window_dimentions = [x |-> WINDOW_WIDTH * UNITS_PER_PIXEL,
                            y |-> WINDOW_HEIGHT * UNITS_PER_PIXEL]
    /\ bird = [velocity |-> 0]
    /\ bird_transform = [translation |-> ZERO, rotation |-> 0]
    /\ obstacles = << >>
    /\ \E offsets \in OffsetDraws :
         commands = spawn_obstacles(<<>>,
                        reserve_entities({}, 2 * OBSTACLE_AMOUNT),
                        offsets, WINDOW_WIDTH * UNITS_PER_PIXEL)
    /\ delta_secs = 0
    /\ just_pressed = FALSE
    /\ pending = {}
    /\ schedule = "Startup"

\* ---- the systems as operations on an arbitrary world ------------------------
\* The contracts of update_bird and update_obsacles are also checked from
\* worlds a caller of the two operations can build, which the app itself need
\* not reach: a spawned field that has scrolled for ScrollTicks ticks, the
\* bird on the vertical axis at one of StartHeights (world units) with one
\* of StartVelocities.
HighStart == 800
StartHeights == {0, HighStart}
StartVelocities == {-250, 0, 250}
ScrolledStart == 12
ScrollTicks == {0, ScrolledStart}

scrolled_field(offsets, ticks, window_width) ==
    LET spawned == apply_commands(<< >>,
                       spawn_obstacles(<<>>,
                           reserve_entities({}, 2 * OBSTACLE_AMOUNT),
                           offsets, window_width))
    IN  [e \in DOMAIN spawned |->
           [spawned[e] EXCEPT !.translation.x = scroll(@, ticks)]]

ContractInit ==
    /\ window_dimentions = [x |-> WINDOW_WIDTH * UNITS_PER_PIXEL,
                            y |-> WINDOW_HEIGHT * UNITS_PER_PIXEL]
    /\ \E v \in StartVelocities : bird = [velocity |-> v]
    /\ \E h \in StartHeights :
         bird_transform = [translation |-> Vec3(0, h * UNITS_PER_PIXEL, 0),
                           rotation |-> 0]
    /\ \E offsets \in OffsetDraws, ticks \in ScrollTicks :
         obstacles = scrolled_field(offsets, ticks, WINDOW_WIDTH * UNITS_PER_PIXEL)
    /\ commands = <<>>
    /\ delta_secs = 0
    /\ just_pressed = FALSE
    /\ pending = {}
    /\ schedule = "Idle"

Next ==
    \/ begin_frame
    \/ update_bird
    \/ update_obsacles
    \/ apply_deferred

Spec == Init /\ [][Next]_vars

ContractSpec == ContractInit /\ [][Next]_vars

\* ============================================================================
\* Properties
\* ============================================================================
\* The step taken is update_bird, resp. update_obsacles.
bird_ran == "update_bird" \in pending /\ "update_bird" \notin pending'

obstacles_ran == "update_obsacles" \in pending /\ "update_obsacles" \notin pending'

\* update_bird declared the bird dead: it queued the reset of the field.
declared_dead == commands' # commands

HalfHeight == (OBSTACLE_HEIGHT * PIXEL_RATIO * UNITS_PER_PIXEL) \div 2

HalfWidth == (OBSTACLE_WIDTH * PIXEL_RATIO * UNITS_PER_PIXEL) \div 2

overlaps_y(e, translation) ==
    abs(obstacles[e].translation.y - translation.y) < HalfHeight

overlaps_x(e, translation) ==
    abs(obstacles[e].translation.x - translation.x) < HalfWidth

offset_of(o) == o.translation.y - o.pipe_direction * get_centered_pipe_position

\* ---- C1 --------------------------------------------------------------------
\* C1: in a step of update_bird in which the screen-bound check does not fire,
\* the bird is declared dead if and only if some obstacle overlaps the
\* integrated position of the bird on both axes at once.
C1_DeadIffBothAxes ==
    [][ (bird_ran /\ ~below_screen_bound(integrated_translation, window_dimentions))
          => (declared_dead <=>
                \E e \in DOMAIN obstacles :
                    /\ overlaps_y(e, integrated_translation)
                    /\ overlaps_x(e, integrated_translation)) ]_vars

\* ---- C2 --------------------------------------------------------------------
\* C2: at every frame boundary the pool holds exactly 2 * OBSTACLE_AMOUNT
\* obstacles.
C2_PoolSize ==
    schedule = "Idle" => Cardinality(DOMAIN obstacles) = 2 * OBSTACLE_AMOUNT

\* A frame boundary after a frame whose advance recycled the first pair and
\* whose reset replaced the startup entities.
C2_Witness ==
    /\ schedule = "Idle"
    /\ delta_secs = LongDelta
    /\ 1 \notin DOMAIN obstacles
    /\ Cardinality(DOMAIN obstacles) = 2 * OBSTACLE_AMOUNT

\* ---- C3 --------------------------------------------------------------------
\* C3: once the field is spawned, neighbouring obstacle pairs are always
\* OBSTACLE_SPACING * PIXEL_RATIO apart: every pair but the leftmost has a
\* pair exactly that far to its left.
C3_EvenSpacing ==
    schedule # "Startup" =>
        LET X == { obstacles[e].translation.x : e \in DOMAIN obstacles }
        IN  \A x \in X :
              \/ \A w \in X : x <= w
              \/ (x - OBSTACLE_SPACING * PIXEL_RATIO * UNITS_PER_PIXEL) \in X

\* ---- C4 --------------------------------------------------------------------
\* C4: once the field is spawned, the obstacles are OBSTACLE_AMOUNT pairs: every
\* obstacle has direction +1 or -1 and exactly one partner, of the opposite
\* direction, at the same x and with the same vertical offset from its
\* centered pipe position.
C4_Paired ==
    schedule # "Startup" =>
        /\ Cardinality(DOMAIN obstacles) = 2 * OBSTACLE_AMOUNT
        /\ \A e \in DOMAIN obstacles :
             /\ obstacles[e].pipe_direction \in {1, -1}
             /\ Cardinality({ f \in DOMAIN obstacles :
                    /\ obstacles[f].pipe_direction = -obstacles[e].pipe_direction
                    /\ obstacles[f].translation.x = obstacles[e].translation.x
                    /\ offset_of(obstacles[f]) = offset_of(obstacles[e]) }) = 1

\* update_obsacles has just recycled the pair spawned at x = 0, giving it an
\* offset that differs from another pair's.
C4_Witness ==
    /\ schedule = "Update"
    /\ "update_obsacles" \notin pending
    /\ \E e, f \in DOMAIN obstacles :
         /\ obstacles[e].translation.x
              = scroll(0, LongDelta) + OBSTACLE_AMOUNT * OBSTACLE_SPACING
                                         * PIXEL_RATIO * UNITS_PER_PIXEL
         /\ offset_of(obstacles[f]) # offset_of(obstacles[e])

\* The field as spawn_obstacles lays it out: for every i < OBSTACLE_AMOUNT,
\* exactly two obstacles at x = i * window_width/2 * PIXEL_RATIO, one of
\* direction +1 and one of direction -1, at +/- the centered pipe position
\* plus one shared offset; and no other obstacle.
initial_layout(world, window_width) ==
    /\ Cardinality(DOMAIN world) = 2 * OBSTACLE_AMOUNT
    /\ \A i \in 0 .. OBSTACLE_AMOUNT - 1 :
         LET P == { e \in DOMAIN world :
                      world[e].translation.x = i * (window_width \div 2) * PIXEL_RATIO }
         IN  /\ Cardinality(P) = 2
             /\ \E u \in P, l \in P :
                  /\ world[u].pipe_direction = 1
                  /\ world[l].pipe_direction = -1
                  /\ world[u].translation.y - get_centered_pipe_position
                       = world[l].translation.y + get_centered_pipe_position

\* ---- C5 --------------------------------------------------------------------
\* C5: a step of update_bird that finds the integrated y below
\* window height / 2 ends with the bird at the origin with velocity 0 and
\* with a reset queued whose application leaves exactly the initial layout,
\* wherever the obstacles were.
C5_BoundDeathResets ==
    [][ (bird_ran /\ integrated_translation.y < window_dimentions.y \div 2)
          => /\ bird'.velocity = 0
             /\ bird_transform'.translation = [x |-> 0, y |-> 0, z |-> 0]
             /\ \E world \in {obstacles'}, queued \in {commands'} :
                  initial_layout(apply_commands(world, queued),
                                 window_dimentions.x) ]_vars

\* update_bird has run first in a frame of LongDelta (the bird falls more than
\* 9000 and is below the bound) on a field that had scrolled, and has reset.
C5_Witness ==
    /\ schedule = "Update"
    /\ pending = {"update_obsacles"}
    /\ delta_secs = LongDelta
    /\ \E e \in DOMAIN obstacles : obstacles[e].translation.x < 0
    /\ bird.velocity = 0
    /\ bird_transform.translation = ZERO
    /\ commands # <<>>

\* ---- C6 --------------------------------------------------------------------
\* C6: the bird's horizontal position is 0 in every state.
C6_BirdOnAxis == bird_transform.translation.x = 0

\* ---- C7 --------------------------------------------------------------------
\* C7: a step of update_bird without impulse that does not end in death leaves
\* the velocity exactly GRAVITY * deltaTime below what it was, with no floor.
C7_GravityAccumulates ==
    [][ (bird_ran /\ ~just_pressed /\ ~declared_dead)
          => bird'.velocity * TICKS_PER_SECOND
               = bird.velocity * TICKS_PER_SECOND - GRAVITY * delta_secs ]_vars

\* The bird has survived a step without impulse that began with a velocity
\* (-500) only earlier such steps produce, and now falls at 750.
C7_Witness ==
    /\ schedule = "Update"
    /\ "update_bird" \notin pending
    /\ commands = <<>>
    /\ ~just_pressed
    /\ delta_secs = 1
    /\ bird.velocity = -750

\* ---- C8 --------------------------------------------------------------------
\* C8: in a step of update_bird with impulse the velocity that is integrated
\* is FLAP_FORCE - GRAVITY * deltaTime whatever the velocity was before: it
\* fixes the rotation, and the velocity and height of a bird that lives on.
C8_ImpulseSetsVelocity ==
    [][ (bird_ran /\ just_pressed)
          => LET v == FLAP_FORCE - (GRAVITY * delta_secs) \div TICKS_PER_SECOND
             IN  /\ bird_transform'.rotation = rotation_of(v)
                 /\ ~declared_dead =>
                      /\ bird'.velocity = v
                      /\ bird_transform'.translation.y
                           = bird_transform.translation.y
                               + (UNITS_PER_PIXEL * v * delta_secs)
                                   \div TICKS_PER_SECOND ]_vars

\* The bird has risen twice from its start height by impulses of one tick:
\* the second impulse came on a velocity of 250.
C8_Witness ==
    /\ schedule = "Update"
    /\ "update_bird" \notin pending
    /\ commands = <<>>
    /\ just_pressed
    /\ delta_secs = 1
    /\ bird.velocity = FLAP_FORCE - GRAVITY \div TICKS_PER_SECOND
    /\ bird_transform.translation.y >= (HighStart + 62) * UNITS_PER_PIXEL

\* ---- C9 --------------------------------------------------------------------
\* C9: update_obsacles moves every obstacle left by
\* OBSTACLE_SCROLL_SPEED * deltaTime; an obstacle whose moved x plus half the
\* obstacle width is left of -window width / 2, and no other, is moved right
\* by OBSTACLE_AMOUNT * OBSTACLE_SPACING * PIXEL_RATIO, once, and gets
\* y = direction * centered pipe position + the offset of the call.
C9_AdvanceAndRecycle ==
    [][ obstacles_ran
          => /\ DOMAIN obstacles' = DOMAIN obstacles
             /\ \E offset \in -OBSTACLE_VERTICAL_OFFSET * PIXEL_RATIO * UNITS_PER_PIXEL
                              .. OBSTACLE_VERTICAL_OFFSET * PIXEL_RATIO * UNITS_PER_PIXEL - 1 :
                  \A e \in DOMAIN obstacles :
                    LET x == obstacles[e].translation.x
                               - (UNITS_PER_PIXEL * OBSTACLE_SCROLL_SPEED * delta_secs)
                                   \div TICKS_PER_SECOND
                        recycled == x + HalfWidth < -(window_dimentions.x \div 2)
                    IN  /\ obstacles'[e].translation.x =
                             IF recycled
                             THEN x + OBSTACLE_AMOUNT * OBSTACLE_SPACING
                                        * PIXEL_RATIO * UNITS_PER_PIXEL
                             ELSE x
                        /\ recycled =>
                             obstacles'[e].translation.y
                               = obstacles[e].pipe_direction * get_centered_pipe_position
                                   + offset ]_vars

\* After an advance of HugeDelta the pair spawned at x = 0 has been moved right
\* once and is still left of the screen.
C9_Witness ==
    /\ schedule = "Update"
    /\ "update_obsacles" \notin pending
    /\ delta_secs = HugeDelta
    /\ \E e \in DOMAIN obstacles :
         /\ obstacles[e].translation.x
              = OBSTACLE_AMOUNT * OBSTACLE_SPACING * PIXEL_RATIO * UNITS_PER_PIXEL
                  - (UNITS_PER_PIXEL * OBSTACLE_SCROLL_SPEED * HugeDelta)
                      \div TICKS_PER_SECOND
         /\ obstacles[e].translation.x + HalfWidth < -(window_dimentions.x \div 2)

\* ---- C10 -------------------------------------------------------------------
\* C10: when the commands of setup_level or of a reset have been applied, pair
\* i is at x = i * window width / 2 * PIXEL_RATIO and its members are at
\* +/- centered pipe position plus one offset of the pair.
C10_SpawnLayout ==
    [][ (schedule \in {"Startup", "Update"} /\ schedule' = "Idle" /\ commands # <<>>)
          => initial_layout(obstacles', window_dimentions.x) ]_vars

\* The field right after a reset (the startup entities are gone), with two
\* pairs of different offsets.
C10_Witness ==
    /\ schedule = "Idle"
    /\ 1 \notin DOMAIN obstacles
    /\ initial_layout(obstacles, window_dimentions.x)
    /\ \E e, f \in DOMAIN obstacles :
         /\ obstacles[e].pipe_direction = obstacles[f].pipe_direction
         /\ obstacles[e].translation.y # obstacles[f].translation.y

\* ---- C11 -------------------------------------------------------------------
\* C11: from the origin with velocity 0, without impulse and with a delta time
\* above 0, the screen-bound check kills the bird, whatever the obstacles and
\* the offsets drawn: update_bird finds the integrated y below
\* window height / 2 in the first frame already, so the number of frames until
\* the death is one for every delta time, obstacle field and offset draw.
at_rest == bird.velocity = 0 /\ bird_transform.translation = [x |-> 0, y |-> 0, z |-> 0]

falling_frame ==
    /\ schedule = "Update"
    /\ "update_bird" \in pending
    /\ ~just_pressed
    /\ delta_secs > 0
    /\ at_rest

C11_BoundDeathInFirstFrame ==
    [][ (bird_ran /\ falling_frame)
          => /\ integrated_translation.y < window_dimentions.y \div 2
             /\ declared_dead
             /\ bird'.velocity = 0
             /\ bird_transform'.translation = ZERO ]_vars

\* The bird has died in a frame of one tick without impulse: the rotation
\* shows the velocity -250 it fell with from rest.
C11_Witness ==
    /\ schedule = "Update"
    /\ "update_bird" \notin pending
    /\ ~just_pressed
    /\ delta_secs = 1
    /\ commands # <<>>
    /\ at_rest
    /\ bird_transform.rotation = -2 * (GRAVITY \div TICKS_PER_SECOND)

\* ---- C12 -------------------------------------------------------------------
\* The offsets one frame consumes, in the order generate_offset hands them
\* out: OBSTACLE_AMOUNT for a spawn_obstacles and one for update_obsacles;
\* the streams that change value at most once.
OffsetStreams ==
    { [i \in 0 .. OBSTACLE_AMOUNT |-> IF i < k THEN a ELSE b] :
        k \in 0 .. OBSTACLE_AMOUNT, a \in generate_offset, b \in generate_offset }

\* The bird, its transform and the obstacles at the end of a frame of Update
\* that starts in the current state and draws its offsets from the stream:
\* with update_bird run first, or with update_obsacles run first.  A dead
\* bird's spawn_obstacles draws OBSTACLE_AMOUNT offsets, update_obsacles one.
frame_end(bird_first, stream) ==
    IF bird_first
    THEN LET after == bird_step(obstacles, [i \in 0 .. OBSTACLE_AMOUNT - 1 |-> stream[i]])
             drawn == IF after.commands = commands THEN 0 ELSE OBSTACLE_AMOUNT
             world == advance_all(obstacles, stream[drawn])
         IN  [bird |-> after.bird, transform |-> after.transform,
              obstacles |-> apply_commands(world, after.commands)]
    ELSE LET world == advance_all(obstacles, stream[0])
             after == bird_step(world, [i \in 0 .. OBSTACLE_AMOUNT - 1 |-> stream[i + 1]])
         IN  [bird |-> after.bird, transform |-> after.transform,
              obstacles |-> apply_commands(world, after.commands)]

\* C12: a frame that starts in a given state, with a given delta time, impulse
\* flag and stream of random offsets, ends in the same state (bird velocity and
\* transform, position and direction of every obstacle) whichever of
\* update_bird and update_obsacles runs first.
C12_OrderIndependent ==
    (schedule = "Update" /\ pending = UpdateSystems)
        => \A stream \in OffsetStreams :
             frame_end(TRUE, stream) = frame_end(FALSE, stream)

\* ---- C13 -------------------------------------------------------------------
\* C13: whenever update_bird runs, update_obsacles has already run in that
\* frame, so that the collision check reads the advanced obstacles.
C13_AdvanceBeforeCollisionCheck ==
    [][ bird_ran => "update_obsacles" \notin pending ]_vars

\* ---- C14 -------------------------------------------------------------------
\* The obstacle recycles in the call of update_obsacles that is the step.
recycles(e) ==
    left_of_screen(scroll(obstacles[e].translation.x, delta_secs), window_dimentions)

\* The field width a recycled obstacle is moved right by.
recycle_step == OBSTACLE_AMOUNT * OBSTACLE_SPACING * PIXEL_RATIO * UNITS_PER_PIXEL

\* C14: all obstacles that recycle in one call of update_obsacles have the
\* same y - direction * centered pipe position after it, the one offset the
\* call drew, whatever pairs they belong to.
C14_OneOffsetPerCall ==
    [][ obstacles_ran
          => \E y_offset \in generate_offset :
               \A e \in DOMAIN obstacles :
                 recycles(e) => offset_of(obstacles'[e]) = y_offset ]_vars

\* After an advance of HugeDelta the pairs spawned at x = 0 and at
\* x = window width / 2 * PIXEL_RATIO have both been recycled and have the
\* same offset, another than that of the next pair, which was not recycled.
C14_Witness ==
    /\ schedule = "Update"
    /\ "update_obsacles" \notin pending
    /\ delta_secs = HugeDelta
    /\ \E e, f, g \in DOMAIN obstacles :
         /\ obstacles[e].translation.x
              = scroll(x_pos(0, window_dimentions.x), HugeDelta) + recycle_step
         /\ obstacles[f].translation.x
              = scroll(x_pos(1, window_dimentions.x), HugeDelta) + recycle_step
         /\ obstacles[g].translation.x
              = scroll(x_pos(2, window_dimentions.x), HugeDelta)
         /\ offset_of(obstacles[e]) = offset_of(obstacles[f])
         /\ offset_of(obstacles[g]) # offset_of(obstacles[e])

\* ---- C15 -------------------------------------------------------------------
\* C15: no step changes the direction of an obstacle; a call of
\* update_obsacles leaves the set of obstacles, the y of every obstacle that
\* does not recycle in it, and the bird's velocity and transform as they were.
C15_AdvanceFrame ==
    [][ /\ \A e \in DOMAIN obstacles \cap DOMAIN obstacles' :
             obstacles'[e].pipe_direction = obstacles[e].pipe_direction
        /\ obstacles_ran
             => /\ DOMAIN obstacles' = DOMAIN obstacles
                /\ \A e \in DOMAIN obstacles :
                     ~recycles(e)
                       => obstacles'[e].translation.y = obstacles[e].translation.y
                /\ bird' = bird
                /\ bird_transform' = bird_transform ]_vars

\* update_obsacles has run first in a frame of LongDelta: the pair spawned at
\* x = 0 has been recycled with one offset, the next pair has scrolled and
\* still has the other offset, and the bird has not moved yet.
C15_Witness ==
    /\ schedule = "Update"
    /\ pending = {"update_bird"}
    /\ delta_secs = LongDelta
    /\ bird_transform.translation = ZERO
    /\ Cardinality(DOMAIN obstacles) = 2 * OBSTACLE_AMOUNT
    /\ \E e, f \in DOMAIN obstacles :
         /\ obstacles[e].translation.x
              = scroll(x_pos(0, window_dimentions.x), LongDelta) + recycle_step
         /\ obstacles[f].translation.x
              = scroll(x_pos(1, window_dimentions.x), LongDelta)
         /\ obstacles[e].pipe_direction = obstacles[f].pipe_direction
         /\ offset_of(obstacles[f]) # offset_of(obstacles[e])

\* ---- C16 -------------------------------------------------------------------
\* C16: every obstacle is at y = direction * centered pipe position + offset
\* with -OBSTACLE_VERTICAL_OFFSET * PIXEL_RATIO <= offset
\* < OBSTACLE_VERTICAL_OFFSET * PIXEL_RATIO, in every state.
C16_OffsetInRange ==
    \A e \in DOMAIN obstacles :
      /\ -OBSTACLE_VERTICAL_OFFSET * PIXEL_RATIO * UNITS_PER_PIXEL
            <= offset_of(obstacles[e])
      /\ offset_of(obstacles[e])
            < OBSTACLE_VERTICAL_OFFSET * PIXEL_RATIO * UNITS_PER_PIXEL

\* After an advance of LongDelta the recycled pair has the largest offset
\* generate_offset returns, and a pair still as it was spawned the smallest.
C16_Witness ==
    /\ schedule = "Update"
    /\ "update_obsacles" \notin pending
    /\ delta_secs = LongDelta
    /\ \E e, f \in DOMAIN obstacles :
         /\ obstacles[e].translation.x
              = scroll(x_pos(0, window_dimentions.x), LongDelta) + recycle_step
         /\ offset_of(obstacles[e])
              = OBSTACLE_VERTICAL_OFFSET * PIXEL_RATIO * UNITS_PER_PIXEL - 1
         /\ obstacles[f].translation.x
              = scroll(x_pos(1, window_dimentions.x), LongDelta)
         /\ offset_of(obstacles[f])
              = -OBSTACLE_VERTICAL_OFFSET * PIXEL_RATIO * UNITS_PER_PIXEL

\* ---- C17 -------------------------------------------------------------------
\* C17: in the app (window height 512) every step of update_bird, whatever the
\* delta time and the impulse, integrates to a y of at most
\* FLAP_FORCE^2 / (4 * GRAVITY) = 31.25, finds it below window height / 2
\* without looking at an obstacle, and resets; so between two frames the bird
\* is at the origin with velocity 0.
C17_EveryStepDies ==
    [][ /\ bird_ran
             => /\ at_rest
                /\ integrated_translation.y
                     <= (UNITS_PER_PIXEL * FLAP_FORCE * FLAP_FORCE) \div (4 * GRAVITY)
                /\ below_screen_bound(integrated_translation, window_dimentions)
                /\ declared_dead
        /\ schedule' = "Idle"
             => /\ bird'.velocity = 0
                /\ bird_transform'.translation = ZERO ]_vars

\* The bird has died in a frame of one tick with impulse, in which it rose to
\* y = 31.25 with velocity 250, after an earlier reset.
C17_Witness ==
    /\ schedule = "Update"
    /\ "update_bird" \notin pending
    /\ just_pressed
    /\ delta_secs = 1
    /\ commands # <<>>
    /\ at_rest
    /\ bird_transform.rotation = rotation_of(FLAP_FORCE - GRAVITY \div TICKS_PER_SECOND)
    /\ 1 \notin DOMAIN obstacles

\* ---- C18 -------------------------------------------------------------------
\* C18: update_bird does not change the obstacles and update_obsacles does not
\* touch the queued commands: the despawns and spawns of a dead bird are
\* applied when no system of the frame is left to run.  At the end of a frame
\* with a death there are, for every i < OBSTACLE_AMOUNT, exactly two
\* obstacles at x = i * window width / 2 * PIXEL_RATIO and none elsewhere,
\* whichever system ran first and however long the frame was.
C18_ResetAppliedAfterBothSystems ==
    [][ /\ bird_ran => obstacles' = obstacles
        /\ obstacles_ran => commands' = commands
        /\ (schedule = "Update" /\ commands # <<>> /\ commands' = <<>>)
             => /\ pending = {}
                /\ schedule' = "Idle"
                /\ DOMAIN obstacles' \cap DOMAIN obstacles = {}
                /\ \A e \in DOMAIN obstacles' :
                     \E i \in 0 .. OBSTACLE_AMOUNT - 1 :
                       obstacles'[e].translation.x = x_pos(i, window_dimentions.x)
                /\ \A i \in 0 .. OBSTACLE_AMOUNT - 1 :
                     Cardinality({ e \in DOMAIN obstacles' :
                                     obstacles'[e].translation.x
                                       = x_pos(i, window_dimentions.x) }) = 2 ]_vars

\* The end of a frame of HugeDelta in which the bird died: the obstacles are
\* those of the reset, none of them moved by the frame's advance.
C18_Witness ==
    /\ schedule = "Idle"
    /\ delta_secs = HugeDelta
    /\ commands = <<>>
    /\ 1 \notin DOMAIN obstacles
    /\ \A i \in 0 .. OBSTACLE_AMOUNT - 1 :
         \E e \in DOMAIN obstacles :
           obstacles[e].translation.x = x_pos(i, window_dimentions.x)

\* ---- C19 -------------------------------------------------------------------
\* The frame's delta time is below
\* (window width / 2 + OBSTACLE_WIDTH * PIXEL_RATIO / 2) / OBSTACLE_SCROLL_SPEED.
short_frame ==
    UNITS_PER_PIXEL * OBSTACLE_SCROLL_SPEED * delta_secs
        < (window_dimentions.x \div 2 + HalfWidth) * TICKS_PER_SECOND

\* C19: in the app (window width 512) a call of update_obsacles in a frame
\* with such a delta time recycles no obstacle: every obstacle is only moved
\* left by OBSTACLE_SCROLL_SPEED * deltaTime, as the field the call finds is
\* the one spawned at x >= 0 by setup_level or by the reset of the frame before.
C19_NoRecycleInShortFrames ==
    [][ (obstacles_ran /\ short_frame)
          => /\ \A e \in DOMAIN obstacles : obstacles[e].translation.x >= 0
             /\ \A e \in DOMAIN obstacles :
                  /\ ~left_of_screen(scroll(obstacles[e].translation.x, delta_secs),
                                     window_dimentions)
                  /\ obstacles'[e].translation
                       = [obstacles[e].translation EXCEPT
                            !.x = scroll(obstacles[e].translation.x, delta_secs)] ]_vars

\* After the advance of a frame just below the limit (LongDelta - 1 ticks),
\* in a frame after a reset: the first pair is left of the screen's edge by
\* less than half its width and has not been recycled.
C19_Witness ==
    /\ schedule = "Update"
    /\ "update_obsacles" \notin pending
    /\ short_frame
    /\ delta_secs = LongDelta - 1
    /\ 1 \notin DOMAIN obstacles
    /\ \E e \in DOMAIN obstacles :
         /\ obstacles[e].translation.x = scroll(x_pos(0, window_dimentions.x), delta_secs)
         /\ obstacles[e].translation.x < -(window_dimentions.x \div 2) + HalfWidth

====
